---- MODULE Spec2Model ----
(***************************************************************************)
(* Model of internal/controller/helpers.go of the HCP Terraform operator:  *)
(*   - the finalizer guards needToAddFinalizer / isDeletionCandidate over  *)
(*     an object's deletion timestamp and finalizer list;                  *)
(*   - the TFE version parser parseTFEVersionDetailed, with Go's int       *)
(*     arithmetic kept at its width (two's complement, little-endian       *)
(*     byte words) and the two regular expressions matched character by    *)
(*     character.                                                          *)
(***************************************************************************)
EXTENDS Integers, Sequences, FiniteSets, TLC

VARIABLES
    obj,        \* the object snapshot: [deletionTimestamp, finalizers]
    needRet,    \* last call of needToAddFinalizer: [called, finalizer, value]
    candRet,    \* last call of isDeletionCandidate: [called, finalizer, value]
    now,        \* the API server's clock (lifecycle)
    cleaned,    \* the controller's external cleanup has run (lifecycle)
    removed,    \* the controller has removed its finalizer (lifecycle)
    version,    \* the version string handed to the parser
    result,     \* what parseTFEVersionDetailed returned for it
    selection,  \* the algorithm selected for the result: [called, value]
    snapshot    \* per reconcile pass, the object it read: [held, obj]

vars == <<obj, needRet, candRet, now, cleaned, removed, version, result,
          selection, snapshot>>

--------------------------------------------------------------------------
(* Bounds *)

MaxFinalizers == 3
MaxClock == 3
MaxFreeLen == 5

\* The sequences over S of length at most n.
SeqsUpTo(S, n) == UNION {[1..k -> S] : k \in 0..n}

--------------------------------------------------------------------------
(* Objects: metav1.ObjectMeta's DeletionTimestamp (a metav1.Time pointer)  *)
(* and Finalizers ([]string).                                              *)

testFinalizer == "test.app.terraform.io/finalizer"
OtherFinalizers == {"kubernetes", "foregroundDeletion"}
Finalizers == {testFinalizer} \cup OtherFinalizers

\* A nil metav1.Time pointer.
NilTimestamp == [null |-> TRUE, unix |-> 0]
\* &metav1.Time{Time: t}; unix = 0 stands for the zero time.Time.
Timestamp(t) == [null |-> FALSE, unix |-> t]

\* metav1.Time's IsZero: true for a nil pointer and for the zero time.
IsZero(ts) == ts.null \/ ts.unix = 0

\* o.GetDeletionTimestamp()
GetDeletionTimestamp(o) == o.deletionTimestamp

\* controllerutil.ContainsFinalizer: a loop over o.GetFinalizers().
RECURSIVE ContainsFrom(_, _, _)
ContainsFrom(fs, finalizer, i) ==
    IF i > Len(fs) THEN FALSE
    ELSE IF fs[i] = finalizer THEN TRUE
    ELSE ContainsFrom(fs, finalizer, i + 1)

ContainsFinalizer(o, finalizer) == ContainsFrom(o.finalizers, finalizer, 1)

\* Mutant: the deletion timestamp and the finalizer joined by "or".
needToAddFinalizerOr(o, finalizer) ==
    IsZero(GetDeletionTimestamp(o)) \/ ~ContainsFinalizer(o, finalizer)

\* Mutant: the deletion timestamp is not looked at.
needToAddFinalizerNoTimestamp(o, finalizer) ==
    ~ContainsFinalizer(o, finalizer)

needToAddFinalizer(o, finalizer) ==
    IsZero(GetDeletionTimestamp(o)) /\ ~ContainsFinalizer(o, finalizer)

\* Mutant: the negation of IsZero dropped.
isDeletionCandidateNotNegated(o, finalizer) ==
    IsZero(GetDeletionTimestamp(o)) /\ ContainsFinalizer(o, finalizer)

\* Mutant: the deletion timestamp is not looked at.
isDeletionCandidateNoTimestamp(o, finalizer) ==
    ContainsFinalizer(o, finalizer)

isDeletionCandidate(o, finalizer) ==
    ~IsZero(GetDeletionTimestamp(o)) /\ ContainsFinalizer(o, finalizer)

--------------------------------------------------------------------------
(* Go's int.  The operator is built for 64-bit targets, where int is       *)
(* int64: a value is a word of IntSize \div 8 bytes, least significant     *)
(* first, in two's complement, and + and * wrap around silently as the Go  *)
(* specification says.  The same operators work on longer words, which the *)
(* claims use to state the exact (unbounded) value next to the wrapped     *)
(* one.                                                                    *)

IntSize == 64
WordLen == IntSize \div 8

\* The n-byte word of a natural number k.
RECURSIVE FromNat(_, _)
FromNat(k, n) ==
    IF n = 0 THEN <<>> ELSE <<k % 256>> \o FromNat(k \div 256, n - 1)

\* Bytes i.. of w*m + c, followed by the carry out of the top byte.
RECURSIVE MulAddFrom(_, _, _, _)
MulAddFrom(w, m, c, i) ==
    IF i > Len(w) THEN <<c>>
    ELSE LET t == w[i] * m + c
         IN  <<t % 256>> \o MulAddFrom(w, m, t \div 256, i + 1)

\* Bytes i.. of x + y + c, followed by the carry out of the top byte.
RECURSIVE AddFrom(_, _, _, _)
AddFrom(x, y, c, i) ==
    IF i > Len(x) THEN <<c>>
    ELSE LET t == x[i] + y[i] + c
         IN  <<t % 256>> \o AddFrom(x, y, t \div 256, i + 1)

\* x + y in Go: the carry out of the word is dropped.
WrapAdd(x, y) == SubSeq(AddFrom(x, y, 0, 1), 1, Len(x))

\* x * m in Go, m a small constant: the carry out of the word is dropped.
WrapMul(x, m) == SubSeq(MulAddFrom(x, m, 0, 1), 1, Len(x))

\* The sign bit of a word.
IsNegative(w) == w[Len(w)] >= 128

\* x < y as unsigned numbers, compared from byte i down.
RECURSIVE BelowFrom(_, _, _)
BelowFrom(x, y, i) ==
    IF i = 0 THEN FALSE
    ELSE IF x[i] # y[i] THEN x[i] < y[i]
    ELSE BelowFrom(x, y, i - 1)

\* x < y as Go ints.
IntLess(x, y) ==
    IF IsNegative(x) # IsNegative(y) THEN IsNegative(x)
    ELSE BelowFrom(x, y, Len(x))

\* math.MaxInt: every bit but the sign bit.
MaxInt == [i \in 1..WordLen |-> IF i = WordLen THEN 127 ELSE 255]

--------------------------------------------------------------------------
(* Strings are sequences of one-character strings.                         *)

DigitChars == <<"0", "1", "2", "3", "4", "5", "6", "7", "8", "9">>
IsDigit(c) == \E i \in DOMAIN DigitChars : DigitChars[i] = c
DigitValue(c) == (CHOOSE i \in DOMAIN DigitChars : DigitChars[i] = c) - 1

\* strconv.Atoi on a string of decimal digits (the regular expressions hand
\* it nothing else): the value, or a range error when it does not fit int.
\* acc is the value read so far as an unsigned word, over whether it has
\* already left the word.
RECURSIVE AtoiFrom(_, _, _, _)
AtoiFrom(s, i, acc, over) ==
    IF i > Len(s) THEN [val |-> acc, over |-> over]
    ELSE LET t == MulAddFrom(acc, 10, DigitValue(s[i]), 1)
         IN  AtoiFrom(s, i + 1, SubSeq(t, 1, Len(acc)),
                      over \/ t[Len(acc) + 1] # 0)

Atoi(s) ==
    LET r == AtoiFrom(s, 1, FromNat(0, WordLen), FALSE)
    IN  IF s = <<>> THEN [val |-> FromNat(0, WordLen), err |-> TRUE]
        ELSE IF r.over \/ IsNegative(r.val)
        THEN [val |-> MaxInt, err |-> TRUE]
        ELSE [val |-> r.val, err |-> FALSE]

--------------------------------------------------------------------------
(* The version parser.                                                     *)

legacyVersionThreshold == 2024091
semanticVersionBase == 300000000

\* Mutant: the revision is one or more digits, ^v([0-9]{6})-([0-9]+)$ .
legacyRegexpAnyRevision(s) ==
    IF /\ Len(s) >= 9
       /\ s[1] = "v"
       /\ \A i \in 2..7 : IsDigit(s[i])
       /\ s[8] = "-"
       /\ \A i \in 9..Len(s) : IsDigit(s[i])
    THEN <<s, SubSeq(s, 2, 7), SubSeq(s, 9, Len(s))>>
    ELSE <<>>

\* legacyRegexp.FindStringSubmatch for ^v([0-9]{6})-([0-9]{1})$ : the whole
\* match and the two groups, or nil (the empty sequence).
legacyRegexp(s) ==
    IF /\ Len(s) = 9
       /\ s[1] = "v"
       /\ \A i \in 2..7 : IsDigit(s[i])
       /\ s[8] = "-"
       /\ IsDigit(s[9])
    THEN <<s, SubSeq(s, 2, 7), SubSeq(s, 9, 9)>>
    ELSE <<>>

\* The index after the longest run of digits that starts at i.
RECURSIVE DigitsEnd(_, _)
DigitsEnd(s, i) ==
    IF i <= Len(s) /\ IsDigit(s[i]) THEN DigitsEnd(s, i + 1) ELSE i

\* (?:[-+].*)?$ from index i: the end of the text, or a "-" or "+" followed
\* by anything but a line break ("." does not match "\n") up to the end of
\* the text ("$" without the m flag).
SuffixMatches(s, i) ==
    \/ i = Len(s) + 1
    \/ /\ i <= Len(s)
       /\ s[i] \in {"-", "+"}
       /\ \A j \in (i + 1)..Len(s) : s[j] # "\n"

\* semanticRegexp.FindStringSubmatch for
\* ^([0-9]+)\.([0-9]+)\.([0-9]+)(?:[-+].*)?$ : the whole match and the three
\* groups, or nil.  Each [0-9]+ is followed by a character that is no digit,
\* so it can only match a longest run of digits.
semanticRegexp(s) ==
    LET a == DigitsEnd(s, 1)
        b == DigitsEnd(s, a + 1)
        c == DigitsEnd(s, b + 1)
    IN  IF /\ a > 1
           /\ a <= Len(s) /\ s[a] = "."
           /\ b > a + 1
           /\ b <= Len(s) /\ s[b] = "."
           /\ c > b + 1
           /\ SuffixMatches(s, c)
        THEN <<s, SubSeq(s, 1, a - 1), SubSeq(s, a + 1, b - 1),
               SubSeq(s, b + 1, c - 1)>>
        ELSE <<>>

\* A nil error, and fmt.Errorf(msg + " %s", version).
NilError == [isNil |-> TRUE, msg |-> "", version |-> <<>>]
Errorf(msg, v) == [isNil |-> FALSE, msg |-> msg, version |-> v]

\* Before the call.
NoResult ==
    [called |-> FALSE, versionNum |-> FromNat(0, WordLen),
     isSemantic |-> FALSE, err |-> NilError]

\* The three values parseTFEVersionDetailed returns.
Return(versionNum, isSemantic, err) ==
    [called |-> TRUE, versionNum |-> versionNum, isSemantic |-> isSemantic,
     err |-> err]

\* Mutant: the base is left out.
EncodeNoBase(major, minor, patch) ==
    WrapAdd(WrapAdd(WrapMul(major, 1000000), WrapMul(minor, 1000)), patch)

\* Mutant: the factors of major and minor are exchanged.
EncodeSwapped(major, minor, patch) ==
    WrapAdd(WrapAdd(WrapAdd(FromNat(semanticVersionBase, Len(major)),
                            WrapMul(major, 1000)),
                    WrapMul(minor, 1000000)),
            patch)

\* semanticVersionBase + major*1_000_000 + minor*1_000 + patch
Encode(major, minor, patch) ==
    WrapAdd(WrapAdd(WrapAdd(FromNat(semanticVersionBase, Len(major)),
                            WrapMul(major, 1000000)),
                    WrapMul(minor, 1000)),
            patch)

\* Mutant: a patch that does not parse is left out of the encoding, which is
\* returned beside the error.
parseSemanticPartial(v, matches) ==
    LET major == Atoi(matches[2])
        minor == Atoi(matches[3])
        patch == Atoi(matches[4])
    IN  IF major.err
        THEN Return(FromNat(0, WordLen), FALSE,
                    Errorf("failed to parse major version from", v))
        ELSE IF minor.err
        THEN Return(FromNat(0, WordLen), FALSE,
                    Errorf("failed to parse minor version from", v))
        ELSE IF patch.err
        THEN Return(Encode(major.val, minor.val, FromNat(0, WordLen)), FALSE,
                    Errorf("failed to parse patch version from", v))
        ELSE Return(Encode(major.val, minor.val, patch.val), TRUE, NilError)

parseSemantic(v, matches) ==
    LET major == Atoi(matches[2])
        minor == Atoi(matches[3])
        patch == Atoi(matches[4])
    IN  IF major.err
        THEN Return(FromNat(0, WordLen), FALSE,
                    Errorf("failed to parse major version from", v))
        ELSE IF minor.err
        THEN Return(FromNat(0, WordLen), FALSE,
                    Errorf("failed to parse minor version from", v))
        ELSE IF patch.err
        THEN Return(FromNat(0, WordLen), FALSE,
                    Errorf("failed to parse patch version from", v))
        ELSE Return(Encode(major.val, minor.val, patch.val), TRUE, NilError)

\* Mutant: the revision digit is left out of the number.
parseLegacyYearMonthOnly(v, matches) ==
    LET versionNum == Atoi(matches[2])
    IN  IF versionNum.err
        THEN Return(FromNat(0, WordLen), FALSE,
                    Errorf("failed to parse legacy TFE version", v))
        ELSE Return(versionNum.val, FALSE, NilError)

parseLegacy(v, matches) ==
    LET versionNum == Atoi(matches[2] \o matches[3])
    IN  IF versionNum.err
        THEN Return(FromNat(0, WordLen), FALSE,
                    Errorf("failed to parse legacy TFE version", v))
        ELSE Return(versionNum.val, FALSE, NilError)

parseTFEVersionDetailed(v) ==
    IF Len(legacyRegexp(v)) = 3
    THEN parseLegacy(v, legacyRegexp(v))
    ELSE IF Len(semanticRegexp(v)) >= 4
    THEN parseSemantic(v, semanticRegexp(v))
    ELSE Return(FromNat(0, WordLen), FALSE, Errorf("malformed TFE version", v))

\* The selection with ">" in place of ">=".
usesNewAlgorithmStrict(versionNum, isSemantic) ==
    isSemantic \/ IntLess(FromNat(legacyVersionThreshold, WordLen), versionNum)

\* isSemantic || versionNum >= legacyVersionThreshold
usesNewAlgorithm(versionNum, isSemantic) ==
    isSemantic \/ ~IntLess(versionNum, FromNat(legacyVersionThreshold, WordLen))

--------------------------------------------------------------------------
(* Snapshots a caller can hand to the guards: the deletion timestamp is    *)
(* nil or a time the API server set (never the zero time), the finalizer   *)
(* list any list of at most MaxFinalizers finalizers.                      *)

Snapshots ==
    [deletionTimestamp : {NilTimestamp} \cup {Timestamp(t) : t \in 1..MaxClock},
     finalizers : SeqsUpTo(Finalizers, MaxFinalizers)]

NoCall == [called |-> FALSE, finalizer |-> "", value |-> FALSE]

NoVersion == <<>>

NoSelection == [called |-> FALSE, value |-> FALSE]

\* The reconcile passes that can be in flight for one object, and a pass
\* that holds no snapshot.
Passes == {"pass1", "pass2"}

NotHeld ==
    [held |-> FALSE,
     obj |-> [deletionTimestamp |-> NilTimestamp, finalizers |-> <<>>]]

NoSnapshot == [p \in Passes |-> NotHeld]

InitGuard ==
    /\ obj \in Snapshots
    /\ needRet = NoCall
    /\ candRet = NoCall
    /\ now = 0
    /\ cleaned = FALSE
    /\ removed = FALSE
    /\ version = NoVersion
    /\ result = NoResult
    /\ selection = NoSelection
    /\ snapshot = NoSnapshot

CallNeedToAddFinalizer(finalizer) ==
    /\ needRet' = [called |-> TRUE, finalizer |-> finalizer,
                   value |-> needToAddFinalizer(obj, finalizer)]
    /\ UNCHANGED <<obj, candRet, now, cleaned, removed, version, result,
                   selection, snapshot>>

CallIsDeletionCandidate(finalizer) ==
    /\ candRet' = [called |-> TRUE, finalizer |-> finalizer,
                   value |-> isDeletionCandidate(obj, finalizer)]
    /\ UNCHANGED <<obj, needRet, now, cleaned, removed, version, result,
                   selection, snapshot>>

NextGuard ==
    \E finalizer \in Finalizers :
        \/ CallNeedToAddFinalizer(finalizer)
        \/ CallIsDeletionCandidate(finalizer)

SpecGuard == InitGuard /\ [][NextGuard]_vars

--------------------------------------------------------------------------
(* The lifecycle of one object around the guards.  The callers of the      *)
(* guards (the reconcilers) and the API server are not part of helpers.go; *)
(* their steps follow the spec's sections 3 and 4.3: the controller adds   *)
(* its finalizer when needToAddFinalizer says so, the API server sets the  *)
(* deletion timestamp once and never clears it, the controller cleans up   *)
(* and then removes its finalizer when isDeletionCandidate says so.  Other *)
(* controllers add and remove finalizers of their own.                     *)

InitLifecycle ==
    /\ obj \in [deletionTimestamp : {NilTimestamp},
                finalizers : SeqsUpTo(OtherFinalizers, MaxFinalizers - 1)]
    /\ needRet = NoCall
    /\ candRet = NoCall
    /\ now = 1
    /\ cleaned = FALSE
    /\ removed = FALSE
    /\ version = NoVersion
    /\ result = NoResult
    /\ selection = NoSelection
    /\ snapshot = NoSnapshot

\* The list without every occurrence of f (controllerutil.RemoveFinalizer).
RECURSIVE Without(_, _)
Without(fs, f) ==
    IF fs = <<>> THEN <<>>
    ELSE IF Head(fs) = f THEN Without(Tail(fs), f)
    ELSE <<Head(fs)>> \o Without(Tail(fs), f)

OthersIn(fs) == Cardinality({i \in DOMAIN fs : fs[i] \in OtherFinalizers})

LifecycleFrame == <<needRet, candRet, version, result, selection, snapshot>>

\* The controller registers its cleanup obligation.
AddToken ==
    /\ needToAddFinalizer(obj, testFinalizer)
    /\ obj' = [obj EXCEPT !.finalizers = Append(@, testFinalizer)]
    /\ UNCHANGED <<now, cleaned, removed>>
    /\ UNCHANGED LifecycleFrame

\* The API server marks the object for deletion, at its current time.
MarkForDeletion ==
    /\ obj.deletionTimestamp.null
    /\ obj' = [obj EXCEPT !.deletionTimestamp = Timestamp(now)]
    /\ UNCHANGED <<now, cleaned, removed>>
    /\ UNCHANGED LifecycleFrame

\* The controller discharges the obligation: the external cleanup runs.
Cleanup ==
    /\ isDeletionCandidate(obj, testFinalizer)
    /\ ~cleaned
    /\ cleaned' = TRUE
    /\ UNCHANGED <<obj, now, removed>>
    /\ UNCHANGED LifecycleFrame

\* After the cleanup the controller removes its finalizer.
RemoveToken ==
    /\ isDeletionCandidate(obj, testFinalizer)
    /\ cleaned
    /\ obj' = [obj EXCEPT !.finalizers = Without(@, testFinalizer)]
    /\ removed' = TRUE
    /\ UNCHANGED <<now, cleaned>>
    /\ UNCHANGED LifecycleFrame

\* Another controller adds a finalizer of its own (the API server accepts
\* new finalizers only before the deletion timestamp is set).
OtherAdd(f) ==
    /\ obj.deletionTimestamp.null
    /\ ~ContainsFinalizer(obj, f)
    /\ OthersIn(obj.finalizers) < MaxFinalizers - 1
    /\ obj' = [obj EXCEPT !.finalizers = Append(@, f)]
    /\ UNCHANGED <<now, cleaned, removed>>
    /\ UNCHANGED LifecycleFrame

\* Another controller removes its finalizer.
OtherRemove(f) ==
    /\ ContainsFinalizer(obj, f)
    /\ obj' = [obj EXCEPT !.finalizers = Without(@, f)]
    /\ UNCHANGED <<now, cleaned, removed>>
    /\ UNCHANGED LifecycleFrame

\* Time passes.
Tick ==
    /\ now < MaxClock
    /\ now' = now + 1
    /\ UNCHANGED <<obj, cleaned, removed>>
    /\ UNCHANGED LifecycleFrame

NextLifecycle ==
    \/ AddToken
    \/ MarkForDeletion
    \/ Cleanup
    \/ RemoveToken
    \/ \E f \in OtherFinalizers : OtherAdd(f)
    \/ \E f \in OtherFinalizers : OtherRemove(f)
    \/ Tick

SpecLifecycle == InitLifecycle /\ [][NextLifecycle]_vars

--------------------------------------------------------------------------
(* The same lifecycle with the reconcile passes taken apart: a pass reads  *)
(* a snapshot of the object, hands it to the guards, and writes later,     *)
(* while the deletion request, other controllers and other passes go on.   *)
(* The store detects conflicts on write (spec, section 5): a write from a  *)
(* snapshot that is no longer the stored object is rejected.               *)

ReconcileFrame == <<needRet, candRet, version, result, selection>>

\* A pass begins: it reads the object.
ReadSnapshot(p) ==
    /\ ~snapshot[p].held
    /\ snapshot' = [snapshot EXCEPT ![p] = [held |-> TRUE, obj |-> obj]]
    /\ UNCHANGED <<obj, now, cleaned, removed>>
    /\ UNCHANGED ReconcileFrame

\* The pass found that the finalizer is needed and its write is accepted.
WriteAdd(p) ==
    /\ snapshot[p].held
    /\ needToAddFinalizer(snapshot[p].obj, testFinalizer)
    /\ obj = snapshot[p].obj
    /\ obj' = [obj EXCEPT !.finalizers = Append(@, testFinalizer)]
    /\ snapshot' = [snapshot EXCEPT ![p] = NotHeld]
    /\ UNCHANGED <<now, cleaned, removed>>
    /\ UNCHANGED ReconcileFrame

\* The pass found a deletion candidate and runs the external cleanup.
CleanupPass(p) ==
    /\ snapshot[p].held
    /\ isDeletionCandidate(snapshot[p].obj, testFinalizer)
    /\ ~cleaned
    /\ cleaned' = TRUE
    /\ UNCHANGED <<obj, now, removed, snapshot>>
    /\ UNCHANGED ReconcileFrame

\* After the cleanup the pass removes the finalizer and its write is
\* accepted.
WriteRemove(p) ==
    /\ snapshot[p].held
    /\ isDeletionCandidate(snapshot[p].obj, testFinalizer)
    /\ cleaned
    /\ obj = snapshot[p].obj
    /\ obj' = [obj EXCEPT !.finalizers = Without(@, testFinalizer)]
    /\ removed' = TRUE
    /\ snapshot' = [snapshot EXCEPT ![p] = NotHeld]
    /\ UNCHANGED <<now, cleaned>>
    /\ UNCHANGED ReconcileFrame

\* The pass ends without a write: neither guard asked for one, or the
\* store rejected the write because the object has changed since the read.
EndPass(p) ==
    /\ snapshot[p].held
    /\ \/ obj # snapshot[p].obj
       \/ /\ ~needToAddFinalizer(snapshot[p].obj, testFinalizer)
          /\ ~isDeletionCandidate(snapshot[p].obj, testFinalizer)
    /\ snapshot' = [snapshot EXCEPT ![p] = NotHeld]
    /\ UNCHANGED <<obj, now, cleaned, removed>>
    /\ UNCHANGED ReconcileFrame

NextReconcile ==
    \/ \E p \in Passes :
           \/ ReadSnapshot(p)
           \/ WriteAdd(p)
           \/ CleanupPass(p)
           \/ WriteRemove(p)
           \/ EndPass(p)
    \/ MarkForDeletion
    \/ \E f \in OtherFinalizers : OtherAdd(f) \/ OtherRemove(f)
    \/ Tick

SpecReconcile == InitLifecycle /\ [][NextReconcile]_vars

--------------------------------------------------------------------------
(* The version strings handed to the parser: strings built like legacy and *)
(* like semantic versions from boundary fields, the strings of the tests,  *)
(* and every string of at most MaxFreeLen characters over a small          *)
(* alphabet.                                                               *)

\* The decimal digits of a natural number.
RECURSIVE Dec(_)
Dec(n) ==
    IF n < 10 THEN <<DigitChars[n + 1]>>
    ELSE Dec(n \div 10) \o <<DigitChars[(n % 10) + 1]>>

MaxIntDigits == Dec(92233720) \o Dec(36854775) \o Dec(807)
MaxIntPlus1Digits == Dec(92233720) \o Dec(36854775) \o Dec(808)
TwoTo64Digits == Dec(1844674407) \o Dec(37095516) \o Dec(16)

LegacyPrefixes == {<<"v">>, <<>>, <<"V">>}
LegacyYearMonths ==
    {Dec(202408), Dec(202409), Dec(202410), Dec(202012), Dec(202502),
     Dec(999999), <<"0", "0", "0", "0", "0", "1">>, Dec(20250), Dec(2024091)}
LegacySeparators == {<<"-">>, <<"+">>, <<>>}
LegacyRevisions == {<<>>, Dec(0), Dec(1), Dec(5), Dec(9), Dec(10)}

LegacyLike ==
    {p \o ym \o sep \o r : p \in LegacyPrefixes, ym \in LegacyYearMonths,
                           sep \in LegacySeparators, r \in LegacyRevisions}

\* 9223372036554 is the largest major whose encoding fits int with minor
\* and patch 0; 288230376151711446 is 2^58 - 298.
Majors ==
    {Dec(0), Dec(1), Dec(2), Dec(10), <<"0", "0", "7">>,
     Dec(922337) \o Dec(2036553), Dec(922337) \o Dec(2036554),
     Dec(922337) \o Dec(2036555),
     Dec(288230376) \o Dec(151711446),
     MaxIntDigits, MaxIntPlus1Digits, TwoTo64Digits, <<"a">>}
Minors == {Dec(0), Dec(1), Dec(24), Dec(999), Dec(1000), MaxIntPlus1Digits}
Patches == {Dec(0), Dec(3), Dec(91), Dec(999), Dec(1000), TwoTo64Digits}
Suffixes ==
    {<<>>, <<"-", "a">>, <<"+", "b", ".", "1">>, <<"-", "a", "\n", "b">>,
     <<"\n">>, <<".", "1">>}

SemanticLike ==
    {ma \o <<".">> \o mi \o <<".">> \o pa \o su :
        ma \in Majors, mi \in Minors, pa \in Patches, su \in Suffixes}

TestStrings ==
    {<<>>, <<"f", "o", "o">>, <<"1", ".", "0">>, Dec(123456),
     Dec(202502) \o <<"-", "1">>,
     <<"a", ".", "0", ".", "0">>, <<"1", ".", "b", ".", "0">>,
     <<"1", ".", "0", ".", "c">>,
     <<"1", ".", "0", ".", "0", "-", "a", "l", "p", "h", "a">>,
     <<"1", ".", "0", ".", "0", "+", "b", "u", "i", "l", "d", ".", "1", "2", "3">>}

FreeAlphabet == {"1", ".", "-", "\n"}

Inputs ==
    LegacyLike \cup SemanticLike \cup TestStrings
        \cup SeqsUpTo(FreeAlphabet, MaxFreeLen)

InitVersion ==
    /\ obj = [deletionTimestamp |-> NilTimestamp, finalizers |-> <<>>]
    /\ needRet = NoCall
    /\ candRet = NoCall
    /\ now = 0
    /\ cleaned = FALSE
    /\ removed = FALSE
    /\ version \in Inputs
    /\ result = NoResult
    /\ selection = NoSelection
    /\ snapshot = NoSnapshot

CallParseTFEVersionDetailed ==
    /\ ~result.called
    /\ result' = parseTFEVersionDetailed(version)
    /\ UNCHANGED <<obj, needRet, candRet, now, cleaned, removed, version,
                   selection, snapshot>>

\* The caller's step after a successful classification: it selects the
\* algorithm from the two values returned.
SelectAlgorithm ==
    /\ result.called
    /\ result.err.isNil
    /\ ~selection.called
    /\ selection' = [called |-> TRUE,
                     value |-> usesNewAlgorithm(result.versionNum,
                                                result.isSemantic)]
    /\ UNCHANGED <<obj, needRet, candRet, now, cleaned, removed, version,
                   result, snapshot>>

NextVersion == CallParseTFEVersionDetailed \/ SelectAlgorithm

SpecVersion == InitVersion /\ [][NextVersion]_vars

--------------------------------------------------------------------------
(* Claims about the guards *)

\* The claims' own reading of a snapshot: the marker is the pointer being
\* set, membership is membership in the list's range.
MarkerPresent(o) == ~o.deletionTimestamp.null
TokenPresent(o, finalizer) ==
    \E i \in DOMAIN o.finalizers : o.finalizers[i] = finalizer

\* C1: needToAddFinalizer returns true exactly when the deletion marker is
\* absent and the token is not among the object's finalizers, and false in
\* the other three (marker, token) combinations.
C1_NeedExactlyAbsentAbsent ==
    needRet.called =>
        (needRet.value <=>
            (~MarkerPresent(obj) /\ ~TokenPresent(obj, needRet.finalizer)))

C1_Witness ==
    /\ needRet.called
    /\ needRet.value
    /\ ~MarkerPresent(obj)
    /\ Len(obj.finalizers) = MaxFinalizers

\* C2: isDeletionCandidate returns true exactly when the deletion marker is
\* present and the token is among the object's finalizers, and false in the
\* other three combinations.
C2_CandidateExactlyPresentPresent ==
    candRet.called =>
        (candRet.value <=>
            (MarkerPresent(obj) /\ TokenPresent(obj, candRet.finalizer)))

C2_Witness ==
    /\ candRet.called
    /\ candRet.value
    /\ MarkerPresent(obj)
    /\ Len(obj.finalizers) = MaxFinalizers
    /\ obj.finalizers[Len(obj.finalizers)] = candRet.finalizer

\* C3: for one object and one finalizer the two guards are never both true,
\* and with the marker absent and the token present, or the marker present
\* and the token absent, both are false.
C3_MutuallyExclusive ==
    (needRet.called /\ candRet.called /\ needRet.finalizer = candRet.finalizer) =>
        /\ ~(needRet.value /\ candRet.value)
        /\ (MarkerPresent(obj) # TokenPresent(obj, needRet.finalizer)) =>
               (~needRet.value /\ ~candRet.value)

C3_Witness ==
    /\ needRet.called /\ candRet.called
    /\ needRet.finalizer = candRet.finalizer
    /\ ~MarkerPresent(obj)
    /\ TokenPresent(obj, needRet.finalizer)
    /\ ~needRet.value /\ ~candRet.value

\* C4: a created object (no marker, no token) needs the finalizer; once the
\* token is added and the object is marked for deletion it is a deletion
\* candidate; once the cleanup has run and the token is removed, both guards
\* are false and stay false, and the marker is never cleared.
C4_Lifecycle ==
    /\ [](  (~MarkerPresent(obj) /\ ~TokenPresent(obj, testFinalizer))
               => needToAddFinalizer(obj, testFinalizer))
    /\ [](  (MarkerPresent(obj) /\ TokenPresent(obj, testFinalizer))
               => isDeletionCandidate(obj, testFinalizer))
    /\ [](  removed
               => /\ cleaned
                  /\ ~needToAddFinalizer(obj, testFinalizer)
                  /\ ~isDeletionCandidate(obj, testFinalizer))
    /\ [][removed => removed']_vars
    /\ [][MarkerPresent(obj) =>
            obj'.deletionTimestamp = obj.deletionTimestamp]_vars

C4_Witness ==
    /\ removed
    /\ cleaned
    /\ MarkerPresent(obj)
    /\ ~TokenPresent(obj, testFinalizer)
    /\ ~needToAddFinalizer(obj, testFinalizer)
    /\ ~isDeletionCandidate(obj, testFinalizer)

--------------------------------------------------------------------------
(* Claims about the version parser.  The claims read a version string in   *)
(* their own terms: its form by where its fields lie, a field's value as   *)
(* an exact number (a word too long to overflow).                          *)

AllDigits(s) == \A i \in DOMAIN s : IsDigit(s[i])

\* The value of a short string of digits.
RECURSIVE DecimalValue(_)
DecimalValue(s) ==
    IF s = <<>> THEN 0
    ELSE 10 * DecimalValue(SubSeq(s, 1, Len(s) - 1)) + DigitValue(s[Len(s)])

\* "v", six digits, "-", one digit.
IsLegacyForm(v) ==
    /\ Len(v) = 9
    /\ SubSeq(v, 1, 1) = <<"v">>
    /\ AllDigits(SubSeq(v, 2, 7))
    /\ SubSeq(v, 8, 8) = <<"-">>
    /\ AllDigits(SubSeq(v, 9, 9))

YearMonthOf(v) == DecimalValue(SubSeq(v, 2, 7))
RevisionOf(v) == DecimalValue(SubSeq(v, 9, Len(v)))

\* The places j of a "." that closes a non-empty field of digits opened
\* after place i.
DotsAfter(v, i) ==
    {j \in (i + 2)..Len(v) : v[j] = "." /\ AllDigits(SubSeq(v, i + 1, j - 1))}

\* The places c where a non-empty field of digits opened after place i ends
\* the string or is followed by "-" or "+".
FieldEnds(v, i) ==
    {c \in (i + 2)..(Len(v) + 1) :
        /\ AllDigits(SubSeq(v, i + 1, c - 1))
        /\ (c = Len(v) + 1 \/ v[c] \in {"-", "+"})}

\* The ways to read v as MAJOR.MINOR.PATCH with an optional suffix that
\* begins with "-" or "+": the places of the two dots and of the suffix.
SemanticCuts(v) ==
    UNION {UNION {{<<a, b, c>> : c \in FieldEnds(v, b)} : b \in DotsAfter(v, a)}
              : a \in DotsAfter(v, 0)}

IsSemanticForm(v) == SemanticCuts(v) # {}

CutOf(v) == CHOOSE cut \in SemanticCuts(v) : TRUE
MajorOf(v) == SubSeq(v, 1, CutOf(v)[1] - 1)
MinorOf(v) == SubSeq(v, CutOf(v)[1] + 1, CutOf(v)[2] - 1)
PatchOf(v) == SubSeq(v, CutOf(v)[2] + 1, CutOf(v)[3] - 1)
SuffixOf(v) == SubSeq(v, CutOf(v)[3], Len(v))
WithoutSuffix(v) == SubSeq(v, 1, CutOf(v)[3] - 1)

HasLineBreak(s) == \E i \in DOMAIN s : s[i] = "\n"

\* Exact numbers: words four bytes longer than an int, which no field or
\* encoding of the inputs fills.
WideLen == WordLen + 4

Exact(digits) == AtoiFrom(digits, 1, FromNat(0, WideLen), FALSE).val

\* An int as an exact number (sign extension), and an exact number cut to
\* an int (reduction modulo 2^IntSize).
Widen(w) ==
    w \o [i \in 1..(WideLen - Len(w)) |-> IF IsNegative(w) THEN 255 ELSE 0]
Narrow(x) == SubSeq(x, 1, WordLen)

FitsInt(x) == Widen(Narrow(x)) = x /\ ~IsNegative(Narrow(x))

\* 300000000 + major*1000000 + minor*1000 + patch, exactly.
ExactEncoding(major, minor, patch) ==
    WrapAdd(WrapAdd(WrapAdd(FromNat(300000000, WideLen),
                            WrapMul(Exact(major), 1000000)),
                    WrapMul(Exact(minor), 1000)),
            Exact(patch))

ExactEncodingOf(v) == ExactEncoding(MajorOf(v), MinorOf(v), PatchOf(v))

ExactLess(x, y) == BelowFrom(x, y, WideLen)

Accepted(r) == r.called /\ r.err.isNil

\* C5: an input "v" + YYYYMM + "-" + N is accepted, as a legacy version,
\* with the number whose decimal digits are YYYYMM followed by N.
C5_LegacyEncoding ==
    (result.called /\ IsLegacyForm(version)) =>
        /\ result.err.isNil
        /\ ~result.isSemantic
        /\ result.versionNum =
               FromNat(DecimalValue(SubSeq(version, 2, 7) \o SubSeq(version, 9, 9)),
                       WordLen)

C5_Witness ==
    /\ result.called
    /\ version = <<"v">> \o Dec(202409) \o <<"-", "1">>
    /\ result.versionNum = FromNat(2024091, WordLen)
    /\ ~result.isSemantic

CmpLegacy ==
    {<<"v">> \o ym \o <<"-">> \o r :
        ym \in {x \in LegacyYearMonths : Len(x) = 6},
        r \in {x \in LegacyRevisions : Len(x) = 1}}

CmpSemantic ==
    {ma \o <<".">> \o mi \o <<".">> \o pa :
        ma \in {x \in Majors : AllDigits(x)},
        mi \in {Dec(0), Dec(1), Dec(999), Dec(1000)},
        pa \in {Dec(0), Dec(3), Dec(999), Dec(1000)}}

\* What the parser returns for each of them, with the exact fields.
LegacyTable ==
    [v \in CmpLegacy |->
        [ret |-> parseTFEVersionDetailed(v),
         yearMonth |-> YearMonthOf(v), revision |-> RevisionOf(v)]]

SemanticTable ==
    [v \in CmpSemantic |->
        [ret |-> parseTFEVersionDetailed(v),
         major |-> Exact(MajorOf(v)), minor |-> Exact(MinorOf(v)),
         patch |-> Exact(PatchOf(v))]]

\* C7, as claimed: the encoding of every accepted legacy input is less than
\* the encoding of every accepted semantic input.
C7_NoCollision ==
    (Accepted(result) /\ result.isSemantic) =>
        \A l \in CmpLegacy :
            Accepted(LegacyTable[l].ret) =>
                IntLess(LegacyTable[l].ret.versionNum, result.versionNum)

\* (year-month, revision) pairs in lexicographic order.
PairLess(ym1, r1, ym2, r2) == ym1 < ym2 \/ (ym1 = ym2 /\ r1 < r2)

TripleLess(ma1, mi1, pa1, ma2, mi2, pa2) ==
    \/ ExactLess(ma1, ma2)
    \/ ma1 = ma2 /\ ExactLess(mi1, mi2)
    \/ ma1 = ma2 /\ mi1 = mi2 /\ ExactLess(pa1, pa2)

\* C9, as claimed: between accepted semantic inputs, the one whose
\* (major, minor, patch) comes first has the smaller encoding.
C9_AsClaimed ==
    (Accepted(result) /\ result.isSemantic) =>
        LET ma == Exact(MajorOf(version))
            mi == Exact(MinorOf(version))
            pa == Exact(PatchOf(version))
        IN  \A s \in CmpSemantic :
                LET t == SemanticTable[s]
                IN  Accepted(t.ret) =>
                        /\ TripleLess(ma, mi, pa, t.major, t.minor, t.patch)
                               => IntLess(result.versionNum, t.ret.versionNum)
                        /\ TripleLess(t.major, t.minor, t.patch, ma, mi, pa)
                               => IntLess(t.ret.versionNum, result.versionNum)

\* The largest major whose encoding fits int whatever minor and patch up to
\* 999 are.
MaxBandMajor == Exact(Dec(922337) \o Dec(2036553))

\* Minor and patch within their three-digit bands, major within int's.
InBands(ma, mi, pa) ==
    /\ ~ExactLess(MaxBandMajor, ma)
    /\ ExactLess(mi, FromNat(1000, WideLen))
    /\ ExactLess(pa, FromNat(1000, WideLen))

\* C9, amended: between accepted semantic inputs whose minor and patch are
\* at most 999 and whose major is at most 9223372036553, the one whose
\* (major, minor, patch) comes first has the smaller encoding.
C9_SemanticMonotonic ==
    (Accepted(result) /\ result.isSemantic) =>
        LET ma == Exact(MajorOf(version))
            mi == Exact(MinorOf(version))
            pa == Exact(PatchOf(version))
        IN  InBands(ma, mi, pa) =>
            \A s \in CmpSemantic :
                LET t == SemanticTable[s]
                IN  (Accepted(t.ret) /\ InBands(t.major, t.minor, t.patch)) =>
                        /\ TripleLess(ma, mi, pa, t.major, t.minor, t.patch)
                               => IntLess(result.versionNum, t.ret.versionNum)
                        /\ TripleLess(t.major, t.minor, t.patch, ma, mi, pa)
                               => IntLess(t.ret.versionNum, result.versionNum)

C9_Witness ==
    /\ Accepted(result) /\ result.isSemantic
    /\ version = Dec(1) \o <<".">> \o Dec(999) \o <<".">> \o Dec(999)
    /\ IntLess(result.versionNum,
               SemanticTable[Dec(2) \o <<".">> \o Dec(0) \o <<".">> \o Dec(0)]
                   .ret.versionNum)
    /\ IntLess(SemanticTable[Dec(1) \o <<".">> \o Dec(999) \o <<".">> \o Dec(3)]
                   .ret.versionNum,
               result.versionNum)

\* The inputs the claim and the tests name as malformed.
NamedMalformed ==
    {<<>>, <<"f", "o", "o">>, <<"1", ".", "0">>,
     <<"1", ".", "0", ".", "0", ".", "1">>, Dec(123456),
     Dec(202502) \o <<"-", "1">>, <<"v">> \o Dec(20250) \o <<"-", "1">>,
     <<"a", ".", "0", ".", "0">>}

\* The input has the form of neither grammar (a semantic suffix with a line
\* break is outside the grammar too).
MatchesNoGrammar(v) ==
    /\ ~IsLegacyForm(v)
    /\ ~(IsSemanticForm(v) /\ ~HasLineBreak(SuffixOf(v)))

\* A field of a semantic input does not fit int.
FieldOutOfRange(v) ==
    /\ IsSemanticForm(v)
    /\ \/ ~FitsInt(Exact(MajorOf(v)))
       \/ ~FitsInt(Exact(MinorOf(v)))
       \/ ~FitsInt(Exact(PatchOf(v)))

\* C10: an input of neither grammar, and an input with a field that does
\* not fit an integer, gets an error that names the input; with an error the
\* number returned is 0 and isSemantic is false.
C10_AllOrNothing ==
    result.called =>
        /\ (MatchesNoGrammar(version) \/ FieldOutOfRange(version)
               \/ version \in NamedMalformed) => ~result.err.isNil
        /\ ~result.err.isNil =>
               /\ result.err.version = version
               /\ result.versionNum = FromNat(0, WordLen)
               /\ ~result.isSemantic

C10_Witness ==
    /\ result.called
    /\ FieldOutOfRange(version)
    /\ MajorOf(version) = Dec(1)
    /\ MinorOf(version) = Dec(24)
    /\ ~result.err.isNil
    /\ result.err.version = version
    /\ result.versionNum = FromNat(0, WordLen)

--------------------------------------------------------------------------
(* Claims about the algorithm selection *)

\* The number a legacy input denotes: its year-month digits followed by its
\* revision digits, read as one decimal number.
LegacyNumberOf(v) ==
    DecimalValue(SubSeq(v, 2, 7) \o SubSeq(v, 9, Len(v)))

\* C11: the selection made for a successful classification is true when the
\* classification is semantic, true when it is legacy and its number is
\* 2024091 or more, and false when it is legacy and its number is less
\* (v202408-1 gives false, v202409-1 gives true).
C11_AlgorithmSelection ==
    selection.called =>
        /\ result.isSemantic => selection.value
        /\ ~result.isSemantic =>
               /\ result.versionNum = FromNat(LegacyNumberOf(version), WordLen)
               /\ selection.value = (LegacyNumberOf(version) >= 2024091)
        /\ version = <<"v">> \o Dec(202408) \o <<"-", "1">> => ~selection.value
        /\ version = <<"v">> \o Dec(202409) \o <<"-", "1">> => selection.value

C11_Witness ==
    /\ selection.called
    /\ ~result.isSemantic
    /\ LegacyNumberOf(version) = 2024091
    /\ selection.value

--------------------------------------------------------------------------
(* Claims about the legacy grammar *)

\* "v", six digits, "-", then two or more digits.
HasLongRevision(v) ==
    /\ Len(v) >= 10
    /\ SubSeq(v, 1, 1) = <<"v">>
    /\ AllDigits(SubSeq(v, 2, 7))
    /\ SubSeq(v, 8, 8) = <<"-">>
    /\ AllDigits(SubSeq(v, 9, Len(v)))

\* Six digits, "-", one digit: a legacy version without its "v".
LacksPrefix(v) ==
    /\ Len(v) = 8
    /\ AllDigits(SubSeq(v, 1, 6))
    /\ SubSeq(v, 7, 7) = <<"-">>
    /\ AllDigits(SubSeq(v, 8, 8))

\* "v", a block of digits that is not six long, "-", one digit.
HasOtherYearMonth(v) ==
    /\ Len(v) >= 3
    /\ Len(v) # 9
    /\ SubSeq(v, 1, 1) = <<"v">>
    /\ AllDigits(SubSeq(v, 2, Len(v) - 2))
    /\ SubSeq(v, Len(v) - 1, Len(v) - 1) = <<"-">>
    /\ AllDigits(SubSeq(v, Len(v), Len(v)))

C12_WitnessPrefix ==
    result.called /\ LacksPrefix(version) /\ ~result.err.isNil

C12_WitnessYearMonth ==
    /\ result.called
    /\ HasOtherYearMonth(version)
    /\ Len(version) \in {8, 10}
    /\ ~result.err.isNil

--------------------------------------------------------------------------
(* Claims about the range of the semantic encoding *)

\* C13, as claimed: every input accepted as semantic has an encoding of
\* 300000000 or more, hence above 2024091, whatever the size of the fields
\* Atoi accepted.
C13_AtLeastBase ==
    (Accepted(result) /\ result.isSemantic) =>
        /\ ~IntLess(result.versionNum, FromNat(300000000, WordLen))
        /\ IntLess(FromNat(2024091, WordLen), result.versionNum)

--------------------------------------------------------------------------
(* Claims about the lifecycle under interleaved reconcile passes *)

\* Some pass still holds a snapshot, read before the token was added, for
\* which needToAddFinalizer is true.
StalePassWantsToken ==
    \E p \in Passes :
        /\ snapshot[p].held
        /\ snapshot[p].obj # obj
        /\ needToAddFinalizer(snapshot[p].obj, testFinalizer)

\* C14: with the marker set at most once and never cleared, and writes made
\* only from a snapshot on which the guard was true, under every
\* interleaving of the passes with the deletion request: the token is never
\* added once the marker is present, never removed while the marker is
\* absent, and once it has been removed needToAddFinalizer stays false.
C14_InterleavedLifecycle ==
    /\ [][(MarkerPresent(obj) /\ ~TokenPresent(obj, testFinalizer))
            => ~TokenPresent(obj', testFinalizer)]_vars
    /\ [][(~MarkerPresent(obj) /\ TokenPresent(obj, testFinalizer))
            => TokenPresent(obj', testFinalizer)]_vars
    /\ [][removed => ~needToAddFinalizer(obj', testFinalizer)]_vars
    /\ [](removed => ~needToAddFinalizer(obj, testFinalizer))

C14_Witness ==
    /\ removed
    /\ MarkerPresent(obj)
    /\ ~TokenPresent(obj, testFinalizer)
    /\ StalePassWantsToken
    /\ ~needToAddFinalizer(obj, testFinalizer)

====
